---- MODULE Spec2Model ----
(***************************************************************************)
(* Model of the immo-eliza harvesting pipeline.                            *)
(*                                                                         *)
(*   Spec      : one call of run_optimized_scraping (scraper/parser.py),   *)
(*               every extraction task tracked individually, with the     *)
(*               persistence sink of utils/file_utils.py.                  *)
(*   SpecPool  : the two ThreadPoolExecutor stages (crawler 10 workers,    *)
(*               parser 20 workers) with tasks counted, so that more       *)
(*               tasks than workers are submitted.                         *)
(*   SpecScout : fetch_page_limit (scraper/crawler.py) applied to the      *)
(*               outcomes of the first-page fetch of a seed.               *)
(*   SpecPages : generate_pages_urls (scraper/crawler.py) over the base    *)
(*               urls, one fetch_page_limit per base url.                  *)
(*   SpecCrawl : run_optimized_crawling from the page list on: page        *)
(*               fetches, exclusion filter, deduplication, csv file.       *)
(*   SpecRecord: get_property_data (scraper/parser.py) with every field of *)
(*               the dict, over bounded detail pages and urls.             *)
(*   SpecLive  : Spec with the fairness of the threads.                    *)
(***************************************************************************)
EXTENDS Integers, Sequences, FiniteSets, TLC

\* ------------------------------------------------------------------ bounds
MaxUrls == 3
MaxBatch == 3
MaxPoolTasks == 22
MaxLinks == 2
MaxAttrLen == 2
MaxSeeds == 2
MaxPages == 2
MaxHrefs == 2
MaxHeaders == 1

\* ------------------------------------------------------- program constants
max_workers_scraping == 20
max_workers_crawling == 10
safety_margin == 10
default_last_page == 1
STATUS_OK == 200
STATUS_NOT_FOUND == 404

VARIABLES
    \* run_optimized_scraping
    urls,            \* the argument urls
    batch_size,      \* the argument batch_size
    file0,           \* the destination as it was when the run started
    file,            \* the destination dataset_filename on disk
    pc,              \* position of the orchestrating task
    i,               \* loop variable of range(0, total_urls, batch_size)
    batch_urls,      \* urls[i: i + batch_size]
    batch_results,   \* results collected so far by list(executor.map(...))
    status,          \* per url position: state of its extraction task
    response,        \* per url position: what session.get produced
    result,          \* per url position: what get_data_from_url returned
    batches,         \* history: every batch_urls formed
    appends,         \* history: data argument of every sink call
    progress,        \* history: every processed value reported
    returned,        \* return value of run_optimized_scraping
    overtaken,       \* history: some task returned before a task submitted earlier
    \* worker pools, counted
    poolStage, poolQueued, poolRunning, poolDone,
    \* fetch_page_limit
    scoutResp, scoutRet,
    \* generate_pages_urls
    base_urls,       \* the argument base_urls
    seed_idx,        \* number of base urls already handled by the for loop
    page_limits,     \* history: what fetch_page_limit returned for each of them
    properties_urls, \* the list of page urls built so far
    gen_pc,          \* position in generate_pages_urls
    \* run_optimized_crawling
    pages_urls,      \* the page urls handed to the executor
    page_status,     \* per page position: state of its fetch_properties_urls task
    page_response,   \* per page position: what session.get produced
    page_result,     \* per page position: what fetch_properties_urls returned
    results,         \* the list extended with every future.result()
    gathered,        \* number of futures whose result was taken
    unique_results,  \* list(set(results))
    urls_file,       \* the csv written by to_csv_file
    crawl_pc,        \* position of the orchestrating task
    crawl_returned,  \* return value of run_optimized_crawling
    \* get_property_data
    detail_url,      \* the argument url
    detail_soup,     \* the argument soup: the parts of the page the function reads
    property_dict,   \* what the call returned
    detail_pc        \* position of the call

scrapeVars == <<urls, batch_size, file0, file, pc, i, batch_urls, batch_results,
                status, response, result, batches, appends, progress, returned,
                overtaken>>
poolVars == <<poolStage, poolQueued, poolRunning, poolDone>>
scoutVars == <<scoutResp, scoutRet>>
pagesVars == <<base_urls, seed_idx, page_limits, properties_urls, gen_pc>>
crawlVars == <<pages_urls, page_status, page_response, page_result, results, gathered,
               unique_results, urls_file, crawl_pc, crawl_returned>>
recordVars == <<detail_url, detail_soup, property_dict, detail_pc>>
vars == <<scrapeVars, poolVars, scoutVars, pagesVars, crawlVars, recordVars>>

\* ----------------------------------------------------------------- values
Min(a, b) == IF a < b THEN a ELSE b

\* Python None, a value not yet produced, an exception leaving the task, and the dict of initialize_property_dict
None == [tag |-> "None", URL |-> 0]
Pending == [tag |-> "Pending", URL |-> 0]
Raised == [tag |-> "Raised", URL |-> 0]
initialize_property_dict(url) == [tag |-> "Record", URL |-> url]

\* lines of the csv file
HeaderLine == [tag |-> "Header", URL |-> 0]
BlankLine == [tag |-> "Blank", URL |-> 0]
OldRow == initialize_property_dict(0)

NoFile == [exists |-> FALSE, lines |-> <<>>]
OldFile == [exists |-> TRUE, lines |-> <<HeaderLine, OldRow>>]

\* soup.find("div", class_="financial w-100"): absent, or its text as words
NoFinancial == [present |-> FALSE, text |-> <<>>]
FinancialDivs ==
    { NoFinancial,
      [present |-> TRUE, text |-> <<"Price">>],
      [present |-> TRUE, text |-> <<"Life", "Annuity">>],
      [present |-> TRUE, text |-> <<"ANNUITY">>] }

\* outcomes of session.get(url, timeout=10) on a detail page
DetailResponses ==
    { [kind |-> "timeout", status |-> 0, financial |-> NoFinancial],
      [kind |-> "connection", status |-> 0, financial |-> NoFinancial],
      [kind |-> "http", status |-> STATUS_NOT_FOUND, financial |-> NoFinancial] }
    \cup [kind : {"http"}, status : {STATUS_OK}, financial : FinancialDivs]
NoResponse == [kind |-> "none", status |-> 0, financial |-> NoFinancial]

total_urls == Len(urls)

\* variant: the slice written urls[i: i + batch_size - 1]
SliceShort(s, a, b) == SubSeq(s, a + 1, Min(b - 1, Len(s)))

\* Python s[a:b] for 0 <= a <= b
Slice(s, a, b) == SubSeq(s, a + 1, Min(b, Len(s)))

\* list comprehension [res for res in rs if res]
RECURSIVE FilterTruthy(_)
FilterTruthy(rs) ==
    IF rs = <<>> THEN <<>>
    ELSE IF Head(rs).tag = "Record"
         THEN <<Head(rs)>> \o FilterTruthy(Tail(rs))
         ELSE FilterTruthy(Tail(rs))

\* ------------------------------------------------------------- extraction
\* str.lower() on the words of a text
LowerWord(w) ==
    CASE w = "Price" -> "price"
      [] w = "Life" -> "life"
      [] w = "Annuity" -> "annuity"
      [] w = "ANNUITY" -> "annuity"
      [] OTHER -> w
Lower(text) == [k \in DOMAIN text |-> LowerWord(text[k])]
\* "annuity" in text, for texts whose words are kept apart
HasWord(text, w) == \E k \in DOMAIN text : text[k] = w

\* variant: "annuity" in financial_details.get_text(), without lower()
get_property_data_case_sensitive(url, resp) ==
    IF resp.financial.present /\ HasWord(resp.financial.text, "annuity")
    THEN None
    ELSE initialize_property_dict(url)

get_property_data(url, resp) ==
    IF resp.financial.present /\ HasWord(Lower(resp.financial.text), "annuity")
    THEN None
    ELSE initialize_property_dict(url)

\* variant: no try/except around session.get
get_data_from_url_uncaught(url, resp) ==
    IF resp.kind # "http" THEN Raised
    ELSE IF resp.status # STATUS_OK THEN None
    ELSE get_property_data(url, resp)

get_data_from_url(url, resp) ==
    IF resp.kind # "http" THEN None          \* except branch
    ELSE IF resp.status # STATUS_OK THEN None
    ELSE get_property_data(url, resp)

\* ------------------------------------------------------------------- sink
\* variant: to_csv with mode='w'
save_to_csv_overwrite(data, f) ==
    LET header == IF f.exists THEN <<>>
                  ELSE IF data = <<>> THEN <<BlankLine>> ELSE <<HeaderLine>>
    IN [exists |-> TRUE, lines |-> header \o data]

save_to_csv_incremental(data, f) ==
    LET file_exists == f.exists
        header == IF file_exists THEN <<>>
                  ELSE IF data = <<>> THEN <<BlankLine>> ELSE <<HeaderLine>>
    IN [exists |-> TRUE, lines |-> f.lines \o header \o data]

\* ------------------------------------------------------------ worker pool
\* variant: one thread per submitted task
WorkerAlwaysAvailable(running, max_workers) == TRUE

WorkerAvailable(running, max_workers) == running < max_workers

BatchPositions == (i + 1)..(i + Len(batch_urls))
NumRunning == Cardinality({p \in DOMAIN status : status[p] = "running"})

\* ------------------------------------------------ run_optimized_scraping
PoolIdle == poolStage = "none" /\ poolQueued = 0 /\ poolRunning = 0 /\ poolDone = 0
EmptyDocument == [control |-> FALSE, links |-> <<>>]
NoScoutResponse == [kind |-> "none", status |-> 0, doc |-> EmptyDocument]
NoValue == [type |-> "none", int |-> 0, str |-> <<>>]
ScoutIdle == scoutResp = NoScoutResponse /\ scoutRet = NoValue
PagesIdle ==
    /\ base_urls = <<>> /\ seed_idx = 0 /\ page_limits = <<>>
    /\ properties_urls = <<>> /\ gen_pc = "idle"
NoUrlsFile == [exists |-> FALSE, lines |-> <<>>]
CrawlIdle ==
    /\ pages_urls = <<>> /\ page_status = <<>> /\ page_response = <<>>
    /\ page_result = <<>> /\ results = <<>> /\ gathered = 0
    /\ unique_results = <<>> /\ urls_file = NoUrlsFile
    /\ crawl_pc = "idle" /\ crawl_returned = -1

\* a tag that soup.find did not find
NoElement == [present |-> FALSE, text |-> <<>>]
NoInfo == [present |-> FALSE, headers |-> <<>>, after |-> NoElement]
NoSoup == [financial |-> NoFinancial, city_line |-> NoElement, price |-> NoElement,
           info |-> NoInfo]
NoDict == [skip |-> TRUE, dict |-> <<>>]
RecordIdle ==
    /\ detail_url = <<>> /\ detail_soup = NoSoup
    /\ property_dict = NoDict /\ detail_pc = "idle"

\* main hands over the duplicate-free list read from properties_urls.csv:
\* a URL is named by its position in that list
Init ==
    /\ \E n \in 0..MaxUrls : urls = [j \in 1..n |-> j]
    /\ batch_size \in 1..MaxBatch
    /\ file0 \in {NoFile, OldFile}
    /\ file = file0
    /\ pc = "loop"
    /\ i = 0
    /\ batch_urls = <<>>
    /\ batch_results = <<>>
    /\ status = [p \in 1..total_urls |-> "idle"]
    /\ response = [p \in 1..total_urls |-> NoResponse]
    /\ result = [p \in 1..total_urls |-> Pending]
    /\ batches = <<>>
    /\ appends = <<>>
    /\ progress = <<>>
    /\ returned = -1
    /\ overtaken = FALSE
    /\ PoolIdle
    /\ ScoutIdle
    /\ PagesIdle
    /\ CrawlIdle
    /\ RecordIdle

\* variant: the loop body runs before the bound is tested (do ... while)
BeginBatchAtLeastOnce ==
    /\ pc = "loop"
    /\ i < total_urls \/ i = 0
    /\ batch_urls' = Slice(urls, i, i + batch_size)
    /\ batches' = Append(batches, batch_urls')
    /\ status' = [p \in DOMAIN status |->
                    IF p \in (i + 1)..(i + Len(batch_urls')) THEN "queued" ELSE status[p]]
    /\ batch_results' = <<>>
    /\ pc' = "collect"
    /\ UNCHANGED <<overtaken, urls, batch_size, file0, file, i, response, result, appends, progress,
                   returned, poolVars, scoutVars, pagesVars, crawlVars, recordVars>>

\* variant: the slice written urls[: i + batch_size], every batch starts at the head
BeginBatchFromHead ==
    /\ pc = "loop"
    /\ i < total_urls
    /\ batch_urls' = Slice(urls, 0, i + batch_size)
    /\ batches' = Append(batches, batch_urls')
    /\ status' = [p \in DOMAIN status |->
                    IF p \in 1..Len(batch_urls') THEN "queued" ELSE status[p]]
    /\ batch_results' = <<>>
    /\ pc' = "collect"
    /\ UNCHANGED <<overtaken, urls, batch_size, file0, file, i, response, result, appends, progress,
                   returned, poolVars, scoutVars, pagesVars, crawlVars, recordVars>>

\* for i in range(0, total_urls, batch_size): batch_urls = urls[i: i + batch_size];
\* executor.map submits one task per url of the batch (all submissions before
\* the first result is awaited)
BeginBatch ==
    /\ pc = "loop"
    /\ i < total_urls
    /\ batch_urls' = Slice(urls, i, i + batch_size)
    /\ batches' = Append(batches, batch_urls')
    /\ status' = [p \in DOMAIN status |->
                    IF p \in (i + 1)..(i + Len(batch_urls')) THEN "queued" ELSE status[p]]
    /\ batch_results' = <<>>
    /\ pc' = "collect"
    /\ UNCHANGED <<overtaken, urls, batch_size, file0, file, i, response, result, appends, progress,
                   returned, poolVars, scoutVars, pagesVars, crawlVars, recordVars>>

\* a pool thread takes the oldest queued task and issues session.get
FetchStart(p) ==
    /\ p \in BatchPositions
    /\ status[p] = "queued"
    /\ \A q \in BatchPositions : q < p => status[q] # "queued"
    /\ WorkerAvailable(NumRunning, max_workers_scraping)
    /\ status' = [status EXCEPT ![p] = "running"]
    /\ UNCHANGED <<overtaken, urls, batch_size, file0, file, pc, i, batch_urls, batch_results, response,
                   result, batches, appends, progress, returned, poolVars, scoutVars, pagesVars, crawlVars, recordVars>>

\* the task at position p returns while a task of the batch submitted before
\* it has not returned
Overtakes(p) == \E q \in BatchPositions : q < p /\ status[q] # "done"

\* variant: each worker appends its own Record to the csv
FetchReturnWritesRow(p, resp) ==
    /\ status[p] = "running"
    /\ overtaken' = (overtaken \/ Overtakes(p))
    /\ response' = [response EXCEPT ![p] = resp]
    /\ result' = [result EXCEPT ![p] = get_data_from_url(urls[p], resp)]
    /\ status' = [status EXCEPT ![p] = "done"]
    /\ file' = save_to_csv_incremental(FilterTruthy(<<result'[p]>>), file)
    /\ UNCHANGED <<urls, batch_size, file0, pc, i, batch_urls, batch_results,
                   batches, appends, progress, returned, poolVars, scoutVars,
                   pagesVars, crawlVars, recordVars>>

\* variant: session.get called without timeout, a silent server is waited for forever
FetchReturnNoTimeout(p, resp) ==
    /\ status[p] = "running"
    /\ overtaken' = (overtaken \/ Overtakes(p))
    /\ IF resp.kind = "timeout"
       THEN /\ status' = [status EXCEPT ![p] = "hung"]
            /\ UNCHANGED <<response, result>>
       ELSE /\ response' = [response EXCEPT ![p] = resp]
            /\ result' = [result EXCEPT ![p] = get_data_from_url(urls[p], resp)]
            /\ status' = [status EXCEPT ![p] = "done"]
    /\ UNCHANGED <<urls, batch_size, file0, file, pc, i, batch_urls, batch_results,
                   batches, appends, progress, returned, poolVars, scoutVars,
                   pagesVars, crawlVars, recordVars>>

\* session.get comes back (or raises) and get_data_from_url runs to its return
FetchReturn(p, resp) ==
    /\ status[p] = "running"
    /\ overtaken' = (overtaken \/ Overtakes(p))
    /\ response' = [response EXCEPT ![p] = resp]
    /\ result' = [result EXCEPT ![p] = get_data_from_url(urls[p], resp)]
    /\ status' = [status EXCEPT ![p] = "done"]
    /\ UNCHANGED <<urls, batch_size, file0, file, pc, i, batch_urls, batch_results,
                   batches, appends, progress, returned, poolVars, scoutVars, pagesVars, crawlVars, recordVars>>

\* the result iterator of executor.map yields the next future's result, in
\* submission order, blocking until that future is done; an exception of the
\* task is raised again in the orchestrating task
FutureDone(p) == status[p] = "done"

\* variant: the futures are gone through from the last submitted to the first
CollectReversed ==
    /\ pc = "collect"
    /\ Len(batch_results) < Len(batch_urls)
    /\ LET p == i + Len(batch_urls) - Len(batch_results)
       IN /\ FutureDone(p)
          /\ IF result[p] = Raised
             THEN pc' = "aborted" /\ UNCHANGED batch_results
             ELSE pc' = pc /\ batch_results' = Append(batch_results, result[p])
    /\ UNCHANGED <<overtaken, urls, batch_size, file0, file, i, batch_urls, status, response, result,
                   batches, appends, progress, returned, poolVars, scoutVars, pagesVars, crawlVars, recordVars>>

Collect ==
    /\ pc = "collect"
    /\ Len(batch_results) < Len(batch_urls)
    /\ LET p == i + Len(batch_results) + 1
       IN /\ FutureDone(p)
          /\ IF result[p] = Raised
             THEN pc' = "aborted" /\ UNCHANGED batch_results  \* future.result() re-raises
             ELSE pc' = pc /\ batch_results' = Append(batch_results, result[p])
    /\ UNCHANGED <<overtaken, urls, batch_size, file0, file, i, batch_urls, status, response, result,
                   batches, appends, progress, returned, poolVars, scoutVars, pagesVars, crawlVars, recordVars>>

\* variant: results not awaited and shutdown(wait=False)
ExitPoolNoWait ==
    /\ pc = "collect"
    /\ pc' = "save"
    /\ UNCHANGED <<overtaken, urls, batch_size, file0, file, i, batch_urls, batch_results, status,
                   response, result, batches, appends, progress, returned,
                   poolVars, scoutVars, pagesVars, crawlVars, recordVars>>

\* list(...) is complete and the with-block leaves: shutdown(wait=True)
ExitPool ==
    /\ pc = "collect"
    /\ Len(batch_results) = Len(batch_urls)
    /\ \A p \in BatchPositions : status[p] = "done"
    /\ pc' = "save"
    /\ UNCHANGED <<overtaken, urls, batch_size, file0, file, i, batch_urls, batch_results, status,
                   response, result, batches, appends, progress, returned,
                   poolVars, scoutVars, pagesVars, crawlVars, recordVars>>

\* variant: the batch is kept in memory, nothing is written inside the loop
SaveDeferred ==
    /\ pc = "save"
    /\ pc' = "progress"
    /\ UNCHANGED <<overtaken, urls, batch_size, file0, file, i, batch_urls, batch_results, status,
                   response, result, batches, appends, progress, returned,
                   poolVars, scoutVars, pagesVars, crawlVars, recordVars>>

\* variant: the sink is called only "if filtered_results:"
SaveBatchSkipEmpty ==
    /\ pc = "save"
    /\ LET filtered_results == FilterTruthy(batch_results)
       IN IF filtered_results = <<>>
          THEN UNCHANGED <<file, appends>>
          ELSE /\ file' = save_to_csv_incremental(filtered_results, file)
               /\ appends' = Append(appends, filtered_results)
    /\ pc' = "progress"
    /\ UNCHANGED <<overtaken, urls, batch_size, file0, i, batch_urls, batch_results, status, response,
                   result, batches, progress, returned, poolVars, scoutVars, pagesVars, crawlVars, recordVars>>

\* filtered_results = [res for res in batch_results if res]; save_to_csv_incremental
SaveBatch ==
    /\ pc = "save"
    /\ LET filtered_results == FilterTruthy(batch_results)
       IN /\ file' = save_to_csv_incremental(filtered_results, file)
          /\ appends' = Append(appends, filtered_results)
    /\ pc' = "progress"
    /\ UNCHANGED <<overtaken, urls, batch_size, file0, i, batch_urls, batch_results, status, response,
                   result, batches, progress, returned, poolVars, scoutVars, pagesVars, crawlVars, recordVars>>

\* variant: processed = i + batch_size
ReportProgressFullBatch ==
    /\ pc = "progress"
    /\ progress' = Append(progress, i + batch_size)
    /\ i' = i + batch_size
    /\ pc' = "loop"
    /\ UNCHANGED <<overtaken, urls, batch_size, file0, file, batch_urls, batch_results, status, response,
                   result, batches, appends, returned, poolVars, scoutVars,
                   pagesVars, crawlVars, recordVars>>

\* processed = i + len(batch_urls); dashboard; the loop variable advances
ReportProgress ==
    /\ pc = "progress"
    /\ progress' = Append(progress, i + Len(batch_urls))
    /\ i' = i + batch_size
    /\ pc' = "loop"
    /\ UNCHANGED <<overtaken, urls, batch_size, file0, file, batch_urls, batch_results, status, response,
                   result, batches, appends, returned, poolVars, scoutVars, pagesVars, crawlVars, recordVars>>

\* variant: the number of Records accepted is returned
ReturnAccepted ==
    /\ pc = "loop"
    /\ i >= total_urls
    /\ returned' = Cardinality({p \in DOMAIN result : result[p].tag = "Record"})
    /\ pc' = "done"
    /\ UNCHANGED <<overtaken, urls, batch_size, file0, file, i, batch_urls, batch_results, status,
                   response, result, batches, appends, progress, poolVars, scoutVars, pagesVars, crawlVars, recordVars>>

\* the range is exhausted: return total_urls
Return ==
    /\ pc = "loop"
    /\ i >= total_urls
    /\ returned' = total_urls
    /\ pc' = "done"
    /\ UNCHANGED <<overtaken, urls, batch_size, file0, file, i, batch_urls, batch_results, status,
                   response, result, batches, appends, progress, poolVars, scoutVars, pagesVars, crawlVars, recordVars>>

Next ==
    \/ BeginBatch
    \/ \E p \in DOMAIN status : FetchStart(p)
    \/ \E p \in DOMAIN status : \E resp \in DetailResponses : FetchReturn(p, resp)
    \/ Collect
    \/ ExitPool
    \/ SaveBatch
    \/ ReportProgress
    \/ Return

Spec == Init /\ [][Next]_vars

\* The run under the scheduling the program relies on: the orchestrating
\* thread is never suspended for ever, a pool thread takes a queued task when
\* it is free, and session.get(url, timeout=10) comes back with a response or
\* raises, at the latest at the timeout.
Orchestrator ==
    BeginBatch \/ Collect \/ ExitPool \/ SaveBatch \/ ReportProgress \/ Return
Worker(p) ==
    /\ p \in DOMAIN status
    /\ FetchStart(p) \/ \E resp \in DetailResponses : FetchReturn(p, resp)
Fairness ==
    /\ WF_vars(Orchestrator)
    /\ \A p \in 1..MaxUrls : WF_vars(Worker(p))

SpecLive == Init /\ [][Next]_vars /\ Fairness

\* --------------------------------------------- the two worker-pool stages
\* with ThreadPoolExecutor(max_workers=10) in run_optimized_crawling and
\* with ThreadPoolExecutor(max_workers=20) in run_optimized_scraping: every
\* task of the stage is submitted, threads take them from the queue one by one
PoolSize(stage) ==
    IF stage = "crawl" THEN max_workers_crawling ELSE max_workers_scraping

ScrapeIdle ==
    /\ urls = <<>> /\ batch_size = 1 /\ file0 = NoFile /\ file = NoFile
    /\ pc = "idle" /\ i = 0 /\ batch_urls = <<>> /\ batch_results = <<>>
    /\ status = <<>> /\ response = <<>> /\ result = <<>>
    /\ batches = <<>> /\ appends = <<>> /\ progress = <<>> /\ returned = -1
    /\ overtaken = FALSE

InitPool ==
    /\ poolStage \in {"crawl", "extract"}
    /\ poolQueued \in 0..MaxPoolTasks
    /\ poolRunning = 0
    /\ poolDone = 0
    /\ ScrapeIdle
    /\ ScoutIdle
    /\ PagesIdle
    /\ CrawlIdle
    /\ RecordIdle

\* a pool thread takes a queued task and issues its session.get
PoolFetchStart ==
    /\ poolQueued > 0
    /\ WorkerAvailable(poolRunning, PoolSize(poolStage))
    /\ poolQueued' = poolQueued - 1
    /\ poolRunning' = poolRunning + 1
    /\ UNCHANGED <<poolStage, poolDone, scrapeVars, scoutVars, pagesVars, crawlVars, recordVars>>

\* a request comes back and its task returns
PoolFetchReturn ==
    /\ poolRunning > 0
    /\ poolRunning' = poolRunning - 1
    /\ poolDone' = poolDone + 1
    /\ UNCHANGED <<poolStage, poolQueued, scrapeVars, scoutVars, pagesVars, crawlVars, recordVars>>

NextPool == PoolFetchStart \/ PoolFetchReturn

SpecPool == InitPool /\ [][NextPool]_vars

\* ------------------------------------------------------ fetch_page_limit
\* characters of a data-value-page attribute and Python's int() on them
AttrChars == {"1", "3", "x"}
DigitValue(c) == CASE c = "0" -> 0 [] c = "1" -> 1 [] c = "2" -> 2 [] c = "3" -> 3
                   [] c = "4" -> 4 [] c = "5" -> 5 [] c = "6" -> 6 [] c = "7" -> 7
                   [] c = "8" -> 8 [] c = "9" -> 9 [] OTHER -> -1
IsInt(str) == str # <<>> /\ \A k \in 1..Len(str) : DigitValue(str[k]) >= 0
RECURSIVE ParseInt(_)
ParseInt(str) ==
    IF str = <<>> THEN 0
    ELSE 10 * ParseInt(SubSeq(str, 1, Len(str) - 1)) + DigitValue(str[Len(str)])

SeqsUpTo(S, n) == UNION {[1..m -> S] : m \in 0..n}

\* an a.page-link element inside ul.pagination: its data-value-page attribute
PageLinks == [has : {TRUE}, value : SeqsUpTo(AttrChars, MaxAttrLen)]
                \cup {[has |-> FALSE, value |-> <<>>]}
\* a first page: whether ul.pagination is there, and its page links in order
Documents == [control : {TRUE}, links : SeqsUpTo(PageLinks, MaxLinks)]
                \cup {[control |-> FALSE, links |-> <<>>]}
\* outcomes of session.get(base_url, timeout=10)
ScoutResponses ==
    { [kind |-> "timeout", status |-> 0, doc |-> EmptyDocument],
      [kind |-> "connection", status |-> 0, doc |-> EmptyDocument] }
    \cup [kind : {"http"}, status : {STATUS_OK, STATUS_NOT_FOUND}, doc : Documents]

\* values fetch_page_limit can hand back: an int, or the attribute string
IntValue(n) == [type |-> "int", int |-> n, str |-> <<>>]
StrValue(str) == [type |-> "str", int |-> 0, str |-> str]

\* soup.select("ul.pagination a.page-link[data-value-page]")
SelectPageLinks(doc) == SelectSeq(doc.links, LAMBDA a : a.has)

\* variant: the margin is added only when a page link was found
fetch_page_limit_margin_if_found(resp) ==
    IF resp.kind # "http" THEN IntValue(default_last_page)
    ELSE LET last_page_tag == SelectPageLinks(resp.doc)
         IN IF last_page_tag = <<>>
            THEN IntValue(default_last_page)
            ELSE LET last_page_number == last_page_tag[Len(last_page_tag)].value
                 IN IF IsInt(last_page_number)
                    THEN IntValue(ParseInt(last_page_number) + safety_margin)
                    ELSE StrValue(last_page_number)

fetch_page_limit(resp) ==
    IF resp.kind # "http" THEN IntValue(default_last_page)   \* session.get raised
    ELSE LET last_page_tag == SelectPageLinks(resp.doc)
         IN IF last_page_tag = <<>>
            THEN IntValue(default_last_page + safety_margin)
            ELSE LET last_page_number == last_page_tag[Len(last_page_tag)].value
                 IN IF IsInt(last_page_number)
                    THEN IntValue(ParseInt(last_page_number) + safety_margin)
                    ELSE StrValue(last_page_number)          \* int() raised

InitScout ==
    /\ scoutResp \in ScoutResponses
    /\ scoutRet = NoValue
    /\ ScrapeIdle
    /\ PoolIdle
    /\ PagesIdle
    /\ CrawlIdle
    /\ RecordIdle

ScoutCall ==
    /\ scoutRet = NoValue
    /\ scoutRet' = fetch_page_limit(scoutResp)
    /\ UNCHANGED <<scoutResp, scrapeVars, poolVars, pagesVars, crawlVars, recordVars>>

NextScout == ScoutCall

SpecScout == InitScout /\ [][NextScout]_vars

\* --------------------------------------------------- generate_pages_urls
\* f"{url}&page={i}"
PageUrl(url, k) == [seed |-> url, page |-> k]

\* [f"{url}&page={i}" for i in range(1, max_p)]
PagesInRange(url, max_p) == [k \in 1..(max_p - 1) |-> PageUrl(url, k)]

\* get_base_urls: one base url per province / municipality, named by position
InitPages ==
    /\ \E n \in 1..MaxSeeds : base_urls = [j \in 1..n |-> j]
    /\ seed_idx = 0
    /\ page_limits = <<>>
    /\ properties_urls = <<>>
    /\ gen_pc = "loop"
    /\ ScrapeIdle
    /\ PoolIdle
    /\ ScoutIdle
    /\ CrawlIdle
    /\ RecordIdle

\* one iteration of "for url in base_urls": fetch_page_limit, then the inner
\* loop over range(1, max_p); range() of a str raises TypeError
GenSeed(resp) ==
    /\ gen_pc = "loop"
    /\ seed_idx < Len(base_urls)
    /\ LET url == base_urls[seed_idx + 1]
           max_p == fetch_page_limit(resp)
       IN /\ page_limits' = Append(page_limits, max_p)
          /\ IF max_p.type = "int"
             THEN /\ properties_urls' = properties_urls \o PagesInRange(url, max_p.int)
                  /\ seed_idx' = seed_idx + 1
                  /\ gen_pc' = gen_pc
             ELSE /\ gen_pc' = "raised"
                  /\ UNCHANGED <<properties_urls, seed_idx>>
    /\ UNCHANGED <<base_urls, scrapeVars, poolVars, scoutVars, crawlVars, recordVars>>

\* return properties_urls
GenReturn ==
    /\ gen_pc = "loop"
    /\ seed_idx = Len(base_urls)
    /\ gen_pc' = "done"
    /\ UNCHANGED <<base_urls, seed_idx, page_limits, properties_urls,
                   scrapeVars, poolVars, scoutVars, crawlVars, recordVars>>

NextPages ==
    \/ \E resp \in ScoutResponses : GenSeed(resp)
    \/ GenReturn

SpecPages == InitPages /\ [][NextPages]_vars

\* ------------------------------------------------ run_optimized_crawling
\* an href is "/" followed by its path segments joined with "/"
Hrefs == { <<"detail", "a">>, <<"projectdetail", "p">>, <<"detail", "projectdetail">> }

\* "/projectdetail/" in href: a segment that is not the last one is projectdetail
ContainsProjectDetail(href) ==
    \E k \in 1..(Len(href) - 1) : href[k] = "projectdetail"

\* outcomes of session.get(page_url, timeout=10): hrefs are the targets of
\* the "h2 a[href]" elements of the body, in document order
PageResponses ==
    { [kind |-> "timeout", status |-> 0, hrefs |-> <<>>],
      [kind |-> "connection", status |-> 0, hrefs |-> <<>>],
      [kind |-> "http", status |-> STATUS_NOT_FOUND, hrefs |-> << <<"detail", "a">> >>] }
    \cup [kind : {"http"}, status : {STATUS_OK}, hrefs : SeqsUpTo(Hrefs, MaxHrefs)]
NoPageResponse == [kind |-> "none", status |-> 0, hrefs |-> <<>>]

\* what a task hands to its future: a list, or an exception
Returns(list) == [raised |-> FALSE, urls |-> list]
Raises == [raised |-> TRUE, urls |-> <<>>]

\* variant: no try/except around session.get
fetch_properties_urls_uncaught(resp) ==
    IF resp.kind # "http" THEN Raises
    ELSE IF resp.status = STATUS_OK
         THEN Returns(SelectSeq(resp.hrefs, LAMBDA h : ~ContainsProjectDetail(h)))
         ELSE Returns(<<>>)

\* variant: every listing-title link is appended
fetch_properties_urls_unfiltered(resp) ==
    IF resp.kind # "http" THEN Returns(<<>>)
    ELSE IF resp.status = STATUS_OK THEN Returns(resp.hrefs) ELSE Returns(<<>>)

fetch_properties_urls(resp) ==
    IF resp.kind # "http" THEN Returns(<<>>)           \* except branch
    ELSE IF resp.status = STATUS_OK
         THEN Returns(SelectSeq(resp.hrefs, LAMBDA h : ~ContainsProjectDetail(h)))
         ELSE Returns(<<>>)

\* to_csv_file(filename, ["property_url"], data_list): the file is rewritten
\* unless pandas raises, which is caught and printed
UrlsHeader == <<"property_url">>
to_csv_file(f, data_list, ok) ==
    IF ok THEN [exists |-> TRUE, lines |-> <<UrlsHeader>> \o data_list] ELSE f

SetOf(list) == {list[k] : k \in 1..Len(list)}
\* list(set(xs)): the elements of the set, in some order
ListsOfSet(S) == {f \in [1..Cardinality(S) -> S] : \A x \in S : \E k \in DOMAIN f : f[k] = x}

NumPagesRunning == Cardinality({p \in DOMAIN page_status : page_status[p] = "running"})

\* the state when generate_pages_urls has returned its list
InitCrawl ==
    /\ \E n \in 0..MaxPages : pages_urls = [j \in 1..n |-> j]
    /\ page_status = [p \in DOMAIN pages_urls |-> "idle"]
    /\ page_response = [p \in DOMAIN pages_urls |-> NoPageResponse]
    /\ page_result = [p \in DOMAIN pages_urls |-> Returns(<<>>)]
    /\ results = <<>>
    /\ gathered = 0
    /\ unique_results = <<>>
    /\ urls_file = NoUrlsFile
    /\ crawl_pc = "submit"
    /\ crawl_returned = -1
    /\ ScrapeIdle
    /\ PoolIdle
    /\ ScoutIdle
    /\ PagesIdle
    /\ RecordIdle

\* future_to_url = [executor.submit(fetch_properties_urls, url, session) ...]
CrawlSubmit ==
    /\ crawl_pc = "submit"
    /\ page_status' = [p \in DOMAIN pages_urls |-> "queued"]
    /\ crawl_pc' = "gather"
    /\ UNCHANGED <<pages_urls, page_response, page_result, results, gathered,
                   unique_results, urls_file, crawl_returned,
                   scrapeVars, poolVars, scoutVars, pagesVars, recordVars>>

\* a pool thread takes the oldest queued task and issues session.get
PageFetchStart(p) ==
    /\ page_status[p] = "queued"
    /\ \A q \in DOMAIN page_status : q < p => page_status[q] # "queued"
    /\ WorkerAvailable(NumPagesRunning, max_workers_crawling)
    /\ page_status' = [page_status EXCEPT ![p] = "running"]
    /\ UNCHANGED <<pages_urls, page_response, page_result, results, gathered,
                   unique_results, urls_file, crawl_pc, crawl_returned,
                   scrapeVars, poolVars, scoutVars, pagesVars, recordVars>>

\* session.get comes back (or raises) and fetch_properties_urls returns
PageFetchReturn(p, resp) ==
    /\ page_status[p] = "running"
    /\ page_response' = [page_response EXCEPT ![p] = resp]
    /\ page_result' = [page_result EXCEPT ![p] = fetch_properties_urls(resp)]
    /\ page_status' = [page_status EXCEPT ![p] = "done"]
    /\ UNCHANGED <<pages_urls, results, gathered, unique_results, urls_file,
                   crawl_pc, crawl_returned, scrapeVars, poolVars, scoutVars, pagesVars, recordVars>>

\* for future in future_to_url: results.extend(future.result())
Gather ==
    /\ crawl_pc = "gather"
    /\ gathered < Len(pages_urls)
    /\ LET p == gathered + 1
       IN /\ page_status[p] = "done"
          /\ IF page_result[p].raised
             THEN crawl_pc' = "aborted" /\ UNCHANGED <<results, gathered>>
             ELSE /\ results' = results \o page_result[p].urls
                  /\ gathered' = gathered + 1
                  /\ crawl_pc' = crawl_pc
    /\ UNCHANGED <<pages_urls, page_status, page_response, page_result,
                   unique_results, urls_file, crawl_returned,
                   scrapeVars, poolVars, scoutVars, pagesVars, recordVars>>

\* variant: unique_results = results
CrawlFinishNoDedupe ==
    /\ crawl_pc = "gather"
    /\ gathered = Len(pages_urls)
    /\ \A p \in DOMAIN page_status : page_status[p] = "done"
    /\ unique_results' = results
    /\ \E ok \in BOOLEAN : urls_file' = to_csv_file(urls_file, unique_results', ok)
    /\ crawl_returned' = Len(unique_results')
    /\ crawl_pc' = "done"
    /\ UNCHANGED <<pages_urls, page_status, page_response, page_result, results,
                   gathered, scrapeVars, poolVars, scoutVars, pagesVars, recordVars>>

\* the with-blocks leave; unique_results = list(set(results)); to_csv_file;
\* return len(unique_results)
CrawlFinish ==
    /\ crawl_pc = "gather"
    /\ gathered = Len(pages_urls)
    /\ \A p \in DOMAIN page_status : page_status[p] = "done"
    /\ unique_results' \in ListsOfSet(SetOf(results))
    /\ \E ok \in BOOLEAN : urls_file' = to_csv_file(urls_file, unique_results', ok)
    /\ crawl_returned' = Len(unique_results')
    /\ crawl_pc' = "done"
    /\ UNCHANGED <<pages_urls, page_status, page_response, page_result, results,
                   gathered, scrapeVars, poolVars, scoutVars, pagesVars, recordVars>>

NextCrawl ==
    \/ CrawlSubmit
    \/ \E p \in DOMAIN page_status : PageFetchStart(p)
    \/ \E p \in DOMAIN page_status : \E resp \in PageResponses : PageFetchReturn(p, resp)
    \/ Gather
    \/ CrawlFinish

SpecCrawl == InitCrawl /\ [][NextCrawl]_vars

\* ------------------------------------------------------ get_property_data
\* Texts are sequences of characters and words; a field of the dict holds
\* None, an int or a str.
PyNone == [type |-> "None", int |-> 0, str |-> <<>>]

\* initialize_property_dict with every field it sets (a Record of the batch
\* pipeline above is this dict named by its URL)
FieldNames ==
    { "URL", "Locality", "Zip code", "Type of property", "Subtype of property",
      "Price", "Type of sale", "Number of rooms", "Living Area",
      "Fully equipped kitchen", "Furnished", "Open fire", "Terrace",
      "Terrace area", "Garden", "Garden area", "Surface of the land",
      "Number of facades", "Swimming pool", "State of the building" }
initialize_property_fields(url) ==
    [k \in FieldNames |-> IF k = "URL" THEN StrValue(url) ELSE PyNone]

\* property_dict[key] = value: the key is added when the dict does not have it
Assign(d, key, value) ==
    [k \in (DOMAIN d) \cup {key} |-> IF k = key THEN value ELSE d[k]]

\* str.strip(), as get_text(strip=True) applies it
RECURSIVE LStrip(_)
LStrip(text) ==
    IF text # <<>> /\ Head(text) = " " THEN LStrip(Tail(text)) ELSE text
RECURSIVE RStrip(_)
RStrip(text) ==
    IF text # <<>> /\ text[Len(text)] = " "
    THEN RStrip(SubSeq(text, 1, Len(text) - 1))
    ELSE text
Strip(text) == RStrip(LStrip(text))
get_text(element) == Strip(element.text)

safe_get_text(soup_element, default) ==
    IF soup_element.present THEN get_text(soup_element) ELSE default

\* "".join(re.findall(r"\d+", text)), then int(numbers) if numbers else None
Digits(text) == SelectSeq(text, LAMBDA c : DigitValue(c) >= 0)
clean_numeric(text) ==
    IF text = <<>> THEN PyNone
    ELSE IF Digits(text) = <<>> THEN PyNone
    ELSE IntValue(ParseInt(Digits(text)))

\* url.split("/")
RECURSIVE Split(_, _)
Split(text, sep) ==
    IF \A k \in 1..Len(text) : text[k] # sep
    THEN <<text>>
    ELSE LET j == CHOOSE j \in 1..Len(text) :
                      text[j] = sep /\ \A k \in 1..(j - 1) : text[k] # sep
         IN <<SubSeq(text, 1, j - 1)>> \o Split(SubSeq(text, j + 1, Len(text)), sep)

\* str.replace(old, new) for a one-character old
Replace(text, old, new) == [k \in DOMAIN text |-> IF text[k] = old THEN new ELSE text[k]]

set_property_locality(soup, d) ==
    LET d1 == Assign(d, "Locality", StrValue(safe_get_text(soup.city_line, <<>>)))
    IN Assign(d1, "Zip code", clean_numeric(d1["Locality"].str))

HouseSubtypes == { <<"residence">>, <<"mixed", "-", "building">>,
                   <<"master", "-", "house">>, <<"villa">> }
set_property_type(d, url) ==
    LET parts == Split(url, "/")
    IN IF Len(parts) >= 6
       THEN LET subtype == parts[6]       \* parts[5], counted from 0
                d1 == Assign(d, "Type of property",
                             IF subtype \in HouseSubtypes
                             THEN StrValue(<<"House">>)
                             ELSE StrValue(<<"Apartment">>))
                d2 == Assign(d1, "Subtype of property", StrValue(subtype))
            IN IF Len(parts) > 6
               THEN Assign(d2, "Type of sale", StrValue(Replace(parts[7], "-", " ")))
               ELSE d2
       ELSE d

set_property_price(d, soup) ==
    Assign(d, "Price", clean_numeric(safe_get_text(soup.price, <<>>)))

\* binary_map.get(val, 0)
binary_map(val) ==
    CASE val = <<"Yes">> -> IntValue(1)
      [] val = <<"No">> -> IntValue(0)
      [] val = <<"0">> -> IntValue(0)
      [] val = <<"Fully", " ", "equipped">> -> IntValue(1)
      [] val = <<"Super", " ", "equipped">> -> IntValue(1)
      [] val = <<"Partially", " ", "equipped">> -> IntValue(0)
      [] OTHER -> IntValue(0)

\* h.find_next("p"): the first <p> after header k in document order, which is
\* the header's own, that of a later header, or one after the table
RECURSIVE find_next_p(_, _)
find_next_p(info, k) ==
    IF k > Len(info.headers) THEN info.after
    ELSE IF info.headers[k].p.present THEN info.headers[k].p
    ELSE find_next_p(info, k + 1)

\* the if/elif chain of the loop body
set_general_info(d, key, val) ==
    CASE key = "State of the property" -> Assign(d, "State of the building", StrValue(val))
      [] key = "Number of bedrooms" -> Assign(d, "Number of rooms", clean_numeric(val))
      [] key = "Livable surface" -> Assign(d, "Living Area", clean_numeric(val))
      [] key = "Kitchen equipment" -> Assign(d, "Fully equipped kitchen", StrValue(val))
      [] key = "Furnished" -> Assign(d, "Furnished", binary_map(val))
      [] key = "Fireplace" -> Assign(d, "Open fire", binary_map(val))
      [] key = "Terrace" -> Assign(d, "Terrace", binary_map(val))
      [] key = "Terrace Area" -> Assign(d, "Terrace area", clean_numeric(val))
      [] key = "Garden" -> Assign(d, "Garden", binary_map(val))
      [] key = "Surface garden" -> Assign(d, "Garden area", clean_numeric(val))
      [] key = "Total land surface" -> Assign(d, "Surface of the land", clean_numeric(val))
      [] key = "Number of facades" -> Assign(d, "Number of facades", clean_numeric(val))
      [] key = "Swimming pool" -> Assign(d, "Swimming pool", binary_map(val))
      [] OTHER -> d

\* for h in headers, from header k on
RECURSIVE set_general_infos_from(_, _, _)
set_general_infos_from(info, d, k) ==
    IF k > Len(info.headers) THEN d
    ELSE LET key == info.headers[k].key
             value_tag == find_next_p(info, k)
             d1 == IF value_tag.present
                   THEN set_general_info(d, key, get_text(value_tag))
                   ELSE d
         IN set_general_infos_from(info, d1, k + 1)

set_property_general_infos(soup, d) ==
    IF soup.info.present THEN set_general_infos_from(soup.info, d, 1) ELSE d

\* get_property_data with the dict it returns: None for an annuity, else
\* the dict after the four setters
get_property_dict(url, soup) ==
    IF soup.financial.present /\ HasWord(Lower(soup.financial.text), "annuity")
    THEN NoDict
    ELSE LET d0 == initialize_property_fields(url)
             d1 == set_property_locality(soup, d0)
             d2 == set_property_type(d1, url)
             d3 == set_property_price(d2, soup)
             d4 == set_property_general_infos(soup, d3)
         IN [skip |-> FALSE, dict |-> d4]

\* the inputs: urls with 5, 6 and 8 path parts, and pages
DetailUrls ==
    { <<"https:", "/", "/", "immovlan.be", "/", "en", "/", "detail">>,
      <<"https:", "/", "/", "immovlan.be", "/", "en", "/", "detail", "/", "villa">>,
      <<"https:", "/", "/", "immovlan.be", "/", "en", "/", "detail", "/", "apartment",
        "/", "for", "-", "sale", "/", "9", "0">> }
CityLines == { NoElement,
               [present |-> TRUE, text |-> <<>>],
               [present |-> TRUE, text |-> <<" ", "9", "0", " ", "Gent", " ">>] }
Prices == { NoElement, [present |-> TRUE, text |-> <<"1", ".", "2", " ", "EUR">>] }
HeaderKeys ==
    { "State of the property", "Number of bedrooms", "Livable surface",
      "Kitchen equipment", "Furnished", "Fireplace", "Terrace", "Terrace Area",
      "Garden", "Surface garden", "Total land surface", "Number of facades",
      "Swimming pool", "Energy class" }
Paragraphs == { NoElement,
                [present |-> TRUE, text |-> <<"Yes">>],
                [present |-> TRUE, text |-> <<"1", "2", " ", "m">>] }
Headers == [key : HeaderKeys, p : Paragraphs]
Infos ==
    {NoInfo} \cup
    [present : {TRUE}, headers : SeqsUpTo(Headers, MaxHeaders),
     after : {NoElement, [present |-> TRUE, text |-> <<"Yes">>]}]
Soups ==
    [financial : {NoFinancial, [present |-> TRUE, text |-> <<"Life", "Annuity">>]},
     city_line : CityLines, price : Prices, info : Infos]

InitRecord ==
    /\ detail_url \in DetailUrls
    /\ detail_soup \in Soups
    /\ property_dict = NoDict
    /\ detail_pc = "call"
    /\ ScrapeIdle
    /\ PoolIdle
    /\ ScoutIdle
    /\ PagesIdle
    /\ CrawlIdle

ExtractCall ==
    /\ detail_pc = "call"
    /\ property_dict' = get_property_dict(detail_url, detail_soup)
    /\ detail_pc' = "returned"
    /\ UNCHANGED <<detail_url, detail_soup, scrapeVars, poolVars, scoutVars,
                   pagesVars, crawlVars>>

NextRecord == ExtractCall

SpecRecord == InitRecord /\ [][NextRecord]_vars

\* ================================================================ claims
\* 0-based ordinal of the batch that holds url position p
BatchIndex(p) == (p - 1) \div batch_size
FetchStarted(p) == status[p] \in {"running", "done"}
InCycle(p) == status[p] \in {"queued", "running"}
Extracted(p) == result[p].tag = "Record"
FileRows == {file.lines[k] : k \in 1..Len(file.lines)}
CeilDiv(n, b) == (n + b - 1) \div b
PositionsOfBatch(k) == ((k - 1) * batch_size + 1)..Min(k * batch_size, total_urls)

\* C1: the append of batch N's Records happens before any detail fetch of
\* batch N+1 is started, and at most one batch is in its
\* fetch/extract/persist cycle at any time.
C1_AppendBeforeNextBatch ==
    /\ \A p \in DOMAIN status : FetchStarted(p) => Len(appends) >= BatchIndex(p)
    /\ \A p, q \in DOMAIN status :
          InCycle(p) /\ InCycle(q) => BatchIndex(p) = BatchIndex(q)
    /\ Len(batches) - Len(appends) \in {0, 1}

C1_Witness ==
    \E p \in DOMAIN status :
        /\ BatchIndex(p) = 1
        /\ status[p] = "running"
        /\ Len(appends) = 1
        /\ appends[1] # <<>>

\* C2: wherever the run is cut, the sink holds the Records of every batch
\* whose cycle completed, and the Records extracted but not in the sink all
\* belong to one single batch.
CompletedUpTo == IF pc = "progress" THEN i + Len(batch_urls) ELSE Min(i, total_urls)

C2_AtMostOneBatchLost ==
    /\ \A p \in DOMAIN result :
          p <= CompletedUpTo /\ Extracted(p) => result[p] \in FileRows
    /\ \A p, q \in DOMAIN result :
          (/\ Extracted(p) /\ result[p] \notin FileRows
           /\ Extracted(q) /\ result[q] \notin FileRows) => BatchIndex(p) = BatchIndex(q)

C2_Witness ==
    \E p, q \in DOMAIN result :
        /\ BatchIndex(p) = 0 /\ Extracted(p) /\ result[p] \in FileRows
        /\ BatchIndex(q) = 1 /\ Extracted(q) /\ result[q] \notin FileRows

\* C3: the number of requests in flight never exceeds the pool size of the
\* stage: at most 20 detail fetches, at most 10 listing-page fetches,
\* whatever the number of URLs submitted.
C3_InFlightBounded ==
    /\ poolStage = "extract" => poolRunning <= 20
    /\ poolStage = "crawl" => poolRunning <= 10
    /\ NumRunning <= 20

C3_Witness ==
    /\ poolRunning = PoolSize(poolStage)
    /\ poolQueued > 0

\* C4: the filtering and the sink append of a batch happen only after every
\* extraction task of that batch has finished, with a Record or a Skip.
C4_BatchBarrier ==
    /\ pc \in {"save", "progress"} => \A p \in BatchPositions : status[p] = "done"
    /\ pc = "save" =>
          /\ Len(batch_results) = Len(batch_urls)
          /\ \A k \in 1..Len(batch_results) :
                /\ batch_results[k] = result[i + k]
                /\ batch_results[k].tag \in {"Record", "None"}
    /\ \A p \in DOMAIN status : BatchIndex(p) < Len(appends) => status[p] = "done"

C4_Witness ==
    /\ pc = "save"
    /\ \E p, q \in BatchPositions : result[p].tag = "Record" /\ result[q].tag = "None"

\* C5: whatever subset of a batch's fetches fails (timeout, connection
\* failure, non-success status), the batch is not aborted, exactly the
\* Records of the successfully fetched, non-excluded URLs are appended, and
\* the processed count counts every URL of the batch.
AnnuityTexts == { <<"Life", "Annuity">>, <<"ANNUITY">> }
SuccessfulAt(p) ==
    /\ response[p].kind = "http"
    /\ response[p].status = 200
    /\ response[p].financial.text \notin AnnuityTexts

ExpectedRecords(k) ==
    LET lo == (k - 1) * batch_size + 1
        hi == Min(k * batch_size, total_urls)
        positions == [j \in 1..(hi - lo + 1) |-> lo + j - 1]
        good == SelectSeq(positions, SuccessfulAt)
    IN [j \in 1..Len(good) |-> [tag |-> "Record", URL |-> urls[good[j]]]]

C5_FaultIsolation ==
    /\ pc # "aborted"
    /\ \A k \in 1..Len(appends) : appends[k] = ExpectedRecords(k)
    /\ \A k \in 1..Len(progress) :
          progress[k] = (k - 1) * batch_size + Cardinality(PositionsOfBatch(k))

C5_Witness ==
    \E k \in 1..Len(progress) :
        /\ Cardinality(PositionsOfBatch(k)) = 2
        /\ Len(appends[k]) = 1
        /\ \E p \in PositionsOfBatch(k) : response[p].kind \in {"timeout", "connection"}

\* C6: the batches are consecutive slices of the input whose sizes sum to
\* N; every batch but possibly the last has exactly B URLs, the last has
\* between 1 and B, and there are ceil(N/B) batches.
RECURSIVE Flatten(_)
Flatten(ss) == IF ss = <<>> THEN <<>> ELSE Head(ss) \o Flatten(Tail(ss))

C6_BatchPartition ==
    /\ Len(Flatten(batches)) <= total_urls
    /\ Flatten(batches) = SubSeq(urls, 1, Len(Flatten(batches)))
    /\ \A k \in 1..Len(batches) :
          /\ Len(batches[k]) \in 1..batch_size
          /\ k < Len(batches) => Len(batches[k]) = batch_size
    /\ pc = "done" =>
          /\ Flatten(batches) = urls
          /\ Len(batches) = CeilDiv(total_urls, batch_size)

C6_Witness ==
    /\ pc = "done"
    /\ Len(batches) = 2
    /\ Len(batches[1]) = batch_size
    /\ Len(batches[2]) < batch_size

\* C7: a sink file created by the run holds its header exactly once, as its
\* first line, after any sequence of batches, empty filtered batches included.
HeaderCount(lines) == Cardinality({k \in 1..Len(lines) : lines[k] = HeaderLine})

C7_HeaderExactlyOnce ==
    (file0 = NoFile /\ Len(appends) >= 1) =>
        /\ HeaderCount(file.lines) = 1
        /\ file.lines[1] = HeaderLine

C9_OneAppendPerBatch ==
    /\ Len(appends) = IF pc \in {"collect", "save"} THEN Len(batches) - 1 ELSE Len(batches)
    /\ pc = "done" => Len(appends) = CeilDiv(total_urls, batch_size)
    /\ \A k \in 1..Len(appends) :
          LET kept == {p \in PositionsOfBatch(k) : Extracted(p)}
          IN /\ Len(appends[k]) = Cardinality(kept)
             /\ {appends[k][j] : j \in 1..Len(appends[k])} = {result[p] : p \in kept}

C9_Witness ==
    /\ pc = "done"
    /\ total_urls = 3
    /\ batch_size = 2
    /\ Len(appends) = 2
    /\ Len(appends[1]) + Len(appends[2]) = 2
    /\ \E p \in DOMAIN response : response[p].kind # "http"

\* C10: a first page fetched successfully that has no pagination control,
\* or a control whose links carry no page-index attribute.
NoPageIndex(doc) == \A k \in 1..Len(doc.links) : ~doc.links[k].has
ControlAbsentCase ==
    /\ scoutRet # NoValue
    /\ scoutResp.kind = "http"
    /\ scoutResp.status = 200
    /\ NoPageIndex(scoutResp.doc)

\* C10 as stated: in that case fetch_page_limit returns 1 and does not raise.
C10_ControlAbsentReturnsOne ==
    ControlAbsentCase => scoutRet = [type |-> "int", int |-> 1, str |-> <<>>]

\* C10 amended: in that case fetch_page_limit returns 11, the default page
\* number 1 plus the margin 10, and does not raise.
C10_ControlAbsentReturnsEleven ==
    ControlAbsentCase => scoutRet = [type |-> "int", int |-> 11, str |-> <<>>]

C10_Witness ==
    /\ ControlAbsentCase
    /\ scoutResp.doc.control
    /\ Len(scoutResp.doc.links) >= 1
    /\ scoutRet.type = "int"

\* C11: when the fetch of the seed's first page fails (timeout, connection
\* failure or a non-success HTTP status), fetch_page_limit returns 1.
FirstPageFetchFailed ==
    \/ scoutResp.kind \in {"timeout", "connection"}
    \/ scoutResp.kind = "http" /\ scoutResp.status # 200

C11_FetchFailureReturnsOne ==
    (scoutRet # NoValue /\ FirstPageFetchFailed) =>
        scoutRet = [type |-> "int", int |-> 1, str |-> <<>>]

\* C12: with a pagination control present, the bound is the highest page
\* index advertised by any pagination link plus 10, whatever the order of
\* the links in the document.
AdvertisedIndexes(doc) ==
    {ParseInt(doc.links[k].value) : k \in {j \in 1..Len(doc.links) : doc.links[j].has}}
AllIndexesValid(doc) ==
    \A k \in 1..Len(doc.links) : doc.links[k].has => IsInt(doc.links[k].value)
HighestOf(S) == CHOOSE m \in S : \A n \in S : n <= m

C12_HighestIndexPlusMargin ==
    (/\ scoutRet # NoValue
     /\ scoutResp.kind = "http"
     /\ scoutResp.status = 200
     /\ AdvertisedIndexes(scoutResp.doc) # {}
     /\ AllIndexesValid(scoutResp.doc)) =>
        scoutRet = [type |-> "int", int |-> HighestOf(AdvertisedIndexes(scoutResp.doc)) + 10,
                    str |-> <<>>]

\* C13: when the last pagination link's page-index attribute is not a valid
\* integer, fetch_page_limit returns what it returns when the control is
\* absent; in every case its result is an integer >= 1.
LastIndexMalformed(doc) ==
    LET sel == SelectSeq(doc.links, LAMBDA a : a.has)
    IN sel # <<>> /\ ~IsInt(sel[Len(sel)].value)

C13_MalformedAsControlAbsent ==
    scoutRet # NoValue =>
        /\ scoutRet.type = "int"
        /\ scoutRet.int >= 1
        /\ (scoutResp.kind = "http" /\ LastIndexMalformed(scoutResp.doc)) =>
              scoutRet = fetch_page_limit([scoutResp EXCEPT !.doc = EmptyDocument])

\* C14: for every seed, generate_pages_urls produces one page URL for each
\* page index from 1 to the bound returned by fetch_page_limit, inclusive; a
\* seed whose bound is 1 still has exactly page 1.
PageIndexesOf(url) ==
    {k \in 1..Len(properties_urls) : properties_urls[k].seed = url}

C14_PagesOneToBound ==
    \A s \in 1..seed_idx :
        page_limits[s].type = "int" =>
            /\ {properties_urls[k].page : k \in PageIndexesOf(base_urls[s])}
                  = 1..page_limits[s].int
            /\ Cardinality(PageIndexesOf(base_urls[s])) = page_limits[s].int

\* C15: a listing page whose fetch fails (exception or non-200 status)
\* contributes zero candidate URLs and never aborts the crawl; the URLs
\* collected from the other pages are those they yield alone, and the crawl
\* reaches deduplication and persistence.
PageFetchFailed(resp) ==
    \/ resp.kind \in {"timeout", "connection"}
    \/ resp.kind = "http" /\ resp.status # 200

RECURSIVE YieldsUpTo(_)
YieldsUpTo(n) ==
    IF n = 0 THEN <<>>
    ELSE YieldsUpTo(n - 1) \o
            (IF PageFetchFailed(page_response[n]) THEN <<>>
             ELSE fetch_properties_urls(page_response[n]).urls)

C15_PageFailureIsolated ==
    /\ crawl_pc # "aborted"
    /\ \A p \in DOMAIN page_status :
          (page_status[p] = "done" /\ PageFetchFailed(page_response[p])) =>
              page_result[p] = [raised |-> FALSE, urls |-> <<>>]
    /\ results = YieldsUpTo(gathered)
    /\ crawl_pc = "done" =>
          /\ gathered = Len(pages_urls)
          /\ SetOf(unique_results) = SetOf(results)

C15_Witness ==
    /\ crawl_pc = "done"
    /\ urls_file.exists
    /\ \E p, q \in DOMAIN page_response :
          /\ PageFetchFailed(page_response[p])
          /\ page_response[q].status = 200
          /\ results = page_response[q].hrefs
          /\ results # <<>>

\* C16: no link containing "/projectdetail/" appears in the output of
\* fetch_properties_urls, in the unique URL set or in the persisted URL
\* file, and every listing-title link that does not match is kept.
AggregateHrefs == { <<"projectdetail", "p">> }

C16_ExclusionFilter ==
    /\ \A p \in DOMAIN page_result : SetOf(page_result[p].urls) \cap AggregateHrefs = {}
    /\ SetOf(results) \cap AggregateHrefs = {}
    /\ SetOf(unique_results) \cap AggregateHrefs = {}
    /\ SetOf(urls_file.lines) \cap AggregateHrefs = {}
    /\ \A p \in DOMAIN page_status :
          (page_status[p] = "done" /\ ~PageFetchFailed(page_response[p])) =>
              page_result[p].urls =
                  SelectSeq(page_response[p].hrefs, LAMBDA h : h \notin AggregateHrefs)

C16_Witness ==
    /\ crawl_pc = "done"
    /\ \E p \in DOMAIN page_response :
          page_response[p].hrefs = << <<"projectdetail", "p">>, <<"detail", "projectdetail">> >>
    /\ urls_file.lines = << <<"property_url">>, <<"detail", "projectdetail">> >>

\* C17: the unique result has no repeated element and is equal as a set to
\* the candidate URLs collected from all pages; run_optimized_crawling
\* returns the size of that set.
C17_Deduplication ==
    crawl_pc = "done" =>
        /\ \A j, k \in 1..Len(unique_results) :
              unique_results[j] = unique_results[k] => j = k
        /\ SetOf(unique_results) = SetOf(results)
        /\ crawl_returned = Cardinality(SetOf(results))

C17_Witness ==
    /\ crawl_pc = "done"
    /\ Len(results) = 4
    /\ Len(unique_results) = 2
    /\ crawl_returned = 2

\* C18: a successfully fetched detail page whose financial summary text
\* contains "annuity" in any letter case yields Skip: no Record is appended
\* for that URL, and the other URLs of its batch are not affected.
AnnuityAt(p) ==
    /\ response[p].kind = "http"
    /\ response[p].status = 200
    /\ response[p].financial.present
    /\ response[p].financial.text \in AnnuityTexts

UrlsAppended == UNION {{appends[k][j].URL : j \in 1..Len(appends[k])} : k \in 1..Len(appends)}
UrlsInFile == {file.lines[k].URL : k \in {j \in 1..Len(file.lines) : file.lines[j].tag = "Record"}}

C18_AnnuityExcluded ==
    \A p \in DOMAIN response :
        /\ AnnuityAt(p) =>
              /\ result[p] = None
              /\ urls[p] \notin UrlsAppended
              /\ urls[p] \notin UrlsInFile
        /\ (SuccessfulAt(p) /\ BatchIndex(p) < Len(appends)) =>
              /\ urls[p] \in UrlsAppended
              /\ urls[p] \in UrlsInFile

C18_Witness ==
    \E p, q \in DOMAIN response :
        /\ BatchIndex(p) = BatchIndex(q)
        /\ response[p].financial.text = <<"Life", "Annuity">>
        /\ SuccessfulAt(q)
        /\ response[q].financial.present
        /\ urls[q] \in UrlsInFile
        /\ urls[p] \notin UrlsInFile

\* C19: after the k-th batch the reported processed count is min(k*B, N),
\* Skips included; over a run it is strictly increasing, never exceeds N and
\* equals N after the last batch.
C19_ProgressCounter ==
    /\ \A k \in 1..Len(progress) :
          /\ progress[k] = Min(k * batch_size, Len(urls))
          /\ progress[k] <= Len(urls)
          /\ k > 1 => progress[k] > progress[k - 1]
    /\ Len(progress) = IF pc = "loop" \/ pc = "done" THEN Len(batches) ELSE Len(batches) - 1
    /\ (pc = "done" /\ Len(urls) > 0) => progress[Len(progress)] = Len(urls)

C19_Witness ==
    /\ pc = "done"
    /\ progress = <<2, 3>>
    /\ \E p \in DOMAIN result : result[p] = None

\* C20: the sink is written only by the orchestrating task, never by an
\* extraction worker; every write is one sink call of the loop body, made
\* while no worker task is queued or running.
C20_SingleWriter ==
    [][file' # file =>
          /\ pc = "save"
          /\ pc' = "progress"
          /\ status' = status
          /\ \A p \in DOMAIN status : status[p] \notin {"queued", "running"}
          /\ Len(appends') = Len(appends) + 1]_vars

C20_Witness ==
    /\ pc = "progress"
    /\ file # file0
    /\ Len(batch_urls) >= 2
    /\ Len(appends) = 1
    /\ Len(appends[1]) >= 1

\* C21: under fair scheduling, with every fetch resolving to a response or a
\* failure, the run eventually returns having processed every batch, whatever
\* the fetch failures and exclusions; and every batch that was started has
\* by then been completed: the histories only grow, so a batch started at any
\* moment is among the batches appended and reported at the return.
C21_Liveness ==
    <>(/\ pc = "done"
       /\ returned = total_urls
       /\ Len(batches) = CeilDiv(total_urls, batch_size)
       /\ Len(appends) = Len(batches)
       /\ Len(progress) = Len(batches)
       /\ \A p \in DOMAIN status : status[p] = "done")

C21_Witness ==
    /\ pc = "done"
    /\ Len(batches) >= 2
    /\ \E p, q \in DOMAIN response :
          /\ response[p].kind = "timeout"
          /\ AnnuityAt(q)

\* C22: with a duplicate-free URL list, every URL is handed to exactly one
\* extraction task in exactly one batch: the batches formed so far are the
\* list up to the loop position, no URL twice, and at the return none is
\* left out; a task is only ever submitted for a URL that had none.
SubmittedUrls == Flatten(batches)
TimesSubmitted(u) == Cardinality({k \in 1..Len(SubmittedUrls) : SubmittedUrls[k] = u})
DuplicateFree(list) == \A j, k \in 1..Len(list) : list[j] = list[k] => j = k

C22_SubmittedExactlyOnce ==
    [][/\ DuplicateFree(urls) =>
            /\ \A p \in DOMAIN urls : TimesSubmitted(urls[p])' <= 1
            /\ \A p \in DOMAIN urls :
                  (TimesSubmitted(urls[p])' = 1) <=> (status'[p] # "idle")
            /\ pc' = "done" => \A p \in DOMAIN urls : TimesSubmitted(urls[p])' = 1
       /\ \A p \in DOMAIN status :
            status'[p] = "queued" /\ status[p] # "queued" => status[p] = "idle"]_vars

C22_Witness ==
    /\ pc = "done"
    /\ total_urls >= 3
    /\ Len(batches) >= 2
    /\ \A p \in DOMAIN urls : TimesSubmitted(urls[p]) = 1

\* C23: every Record get_property_data produces has exactly the 20 field
\* names of initialize_property_dict, whatever the page and the URL: no field
\* is added or removed, and a field whose data the page or the URL does not
\* hold stays None.
HeaderOf(field) ==
    CASE field = "State of the building" -> "State of the property"
      [] field = "Number of rooms" -> "Number of bedrooms"
      [] field = "Living Area" -> "Livable surface"
      [] field = "Fully equipped kitchen" -> "Kitchen equipment"
      [] field = "Furnished" -> "Furnished"
      [] field = "Open fire" -> "Fireplace"
      [] field = "Terrace" -> "Terrace"
      [] field = "Terrace area" -> "Terrace Area"
      [] field = "Garden" -> "Garden"
      [] field = "Garden area" -> "Surface garden"
      [] field = "Surface of the land" -> "Total land surface"
      [] field = "Number of facades" -> "Number of facades"
      [] field = "Swimming pool" -> "Swimming pool"
      [] OTHER -> "-"
UrlFields == {"Type of property", "Subtype of property", "Type of sale"}
HasHeader(soup, key) ==
    soup.info.present /\ \E k \in 1..Len(soup.info.headers) : soup.info.headers[k].key = key
DataMissing(field) ==
    CASE field = "URL" -> FALSE
      [] field \in {"Locality", "Zip code"} -> ~detail_soup.city_line.present
      [] field = "Price" -> ~detail_soup.price.present
      [] field \in UrlFields -> Len(Split(detail_url, "/")) < 6
      [] OTHER -> ~HasHeader(detail_soup, HeaderOf(field))
RecordReturned == detail_pc = "returned" /\ ~property_dict.skip

SameFieldNames ==
    /\ DOMAIN property_dict.dict = FieldNames
    /\ Cardinality(DOMAIN property_dict.dict) = 20

C23_UniformRecordShape ==
    RecordReturned =>
        /\ SameFieldNames
        /\ \A field \in FieldNames :
              DataMissing(field) => property_dict.dict[field] = PyNone

\* C24: the Records the run has put in the sink stand in the order of their
\* URLs in the input list, within a batch and across batches, whatever the
\* order in which the extraction tasks returned.
PositionOf(u) == CHOOSE p \in DOMAIN urls : urls[p] = u
NewRecordRows ==
    SelectSeq(SubSeq(file.lines, Len(file0.lines) + 1, Len(file.lines)),
              LAMBDA line : line.tag = "Record")

C24_OrderPreserved ==
    /\ \A j, k \in 1..Len(NewRecordRows) :
          j < k => PositionOf(NewRecordRows[j].URL) < PositionOf(NewRecordRows[k].URL)
    /\ \A b \in 1..Len(appends) : \A j, k \in 1..Len(appends[b]) :
          j < k => PositionOf(appends[b][j].URL) < PositionOf(appends[b][k].URL)

C24_Witness ==
    /\ overtaken
    /\ pc = "done"
    /\ Len(appends) >= 2
    /\ Len(appends[1]) >= 2
    /\ Len(NewRecordRows) = total_urls

\* C25: called with an empty URL list, run_optimized_scraping starts no
\* fetch, forms no batch, makes no sink append (the destination is neither
\* created nor modified), reports no progress, and returns 0 without raising.
C25_EmptyInput ==
    total_urls = 0 =>
        /\ batches = <<>>
        /\ appends = <<>>
        /\ progress = <<>>
        /\ file = file0
        /\ DOMAIN status = {}
        /\ pc \in {"loop", "done"}
        /\ pc = "done" => returned = 0

C25_Witness ==
    /\ total_urls = 0
    /\ pc = "done"
    /\ returned = 0
    /\ file = NoFile

====
